---- MODULE Spec2Model ----
(***************************************************************************)
(* Model of src/src/scene-cube-renderer.ts: the SceneCubeRenderer class,   *)
(* its face table POINT_FACE_SET and the shared helpers drawAxis/drawAxes. *)
(*                                                                         *)
(* Encoding of JavaScript values:                                          *)
(*   - an optional value (a field that may be undefined, an option that    *)
(*     may be absent) is a sequence: <<>> when absent, <<v>> when present; *)
(*   - opacities are counted in tenths (0.5 is 5, 0.8 is 8, 1 is 10);      *)
(*     sizes and coordinates are plain integers;                           *)
(*   - a call either returns a value, Ok(v), or throws, Fault: reading     *)
(*     .x or .y of an array element beyond the array's length throws a     *)
(*     TypeError;                                                          *)
(*   - arrays are 0-indexed in the source and 1-indexed here: At(p, i)     *)
(*     reads p[i] of the source.                                           *)
(***************************************************************************)
EXTENDS Integers, Sequences, FiniteSets, TLC

VARIABLES cube, sceneOptions, lastCall, returned, renderCalls, firstRender

vars == <<cube, sceneOptions, lastCall, returned, renderCalls, firstRender>>

(* ---------------------------- bounds ----------------------------------- *)

\* render() calls counted per behaviour
MaxCalls == 2

\* how many trailing points the geometry collaborator may fail to deliver
MaxMissing == 1

(* ------------------------- JavaScript values --------------------------- *)

Ok(v) == [ok |-> TRUE, value |-> v]

Fault == [ok |-> FALSE, value |-> <<>>]

\* a || d on an optional number: undefined and 0 are both falsy
OrDefault(a, d) == IF a = <<>> \/ a[1] = 0 THEN d ELSE a[1]

\* p[i] of the source
At(p, i) == p[i + 1]

\* p[i].x / p[i].y can be read for every i of idx
Readable(p, idx) == \A i \in idx : i + 1 \in DOMAIN p

Range(s) == {s[i] : i \in DOMAIN s}

(* --------------------------- face table -------------------------------- *)

\* the bottom face wound as 2, 3, 6, 7: its outline runs over the diagonals
POINT_FACE_SET_crossed ==
    << <<0, 1, 3, 2>>,
       <<1, 5, 7, 3>>,
       <<5, 4, 6, 7>>,
       <<4, 0, 2, 6>>,
       <<4, 5, 1, 0>>,
       <<2, 3, 6, 7>> >>

\* the bottom face with vertex 7 typed twice and vertex 6 left out
POINT_FACE_SET_repeated ==
    << <<0, 1, 3, 2>>,
       <<1, 5, 7, 3>>,
       <<5, 4, 6, 7>>,
       <<4, 0, 2, 6>>,
       <<4, 5, 1, 0>>,
       <<2, 3, 7, 7>> >>

POINT_FACE_SET ==
    << <<0, 1, 3, 2>>,
       <<1, 5, 7, 3>>,
       <<5, 4, 6, 7>>,
       <<4, 0, 2, 6>>,
       <<4, 5, 1, 0>>,
       <<2, 3, 7, 6>> >>

(* ------------------------ shared axis routine -------------------------- *)

drawAxis(p, v, color, opacity, size, name) ==
    [x0 |-> <<p.x>>,
     y0 |-> <<p.y>>,
     x1 |-> <<v.x>>,
     y1 |-> <<v.y>>,
     color |-> color,
     opacity |-> opacity,
     size |-> size,
     type |-> "lines",
     id |-> "x-" \o name]

\* the z axis drawn with the y axis' colour
drawAxes_zAsY(p0, vx, vy, vz, name, AxesOptions) ==
    LET opacity == OrDefault(AxesOptions.edgeOpacity, 10)
        size == OrDefault(AxesOptions.lineSize, 1)
        xAxis == drawAxis(p0, vx, AxesOptions.xColor, opacity, size, name)
        yAxis == drawAxis(p0, vy, AxesOptions.yColor, opacity, size, name)
        zAxis == drawAxis(p0, vz, AxesOptions.yColor, opacity, size, name)
        centerPoint ==
            [x |-> <<p0.x>>,
             y |-> <<p0.y>>,
             color |-> AxesOptions.intersectionPointColor,
             opacity |-> 10,
             size |-> OrDefault(AxesOptions.intersectionPointSize, 3),
             type |-> "points",
             id |-> "point-" \o name]
    IN  <<xAxis, yAxis, zAxis, centerPoint>>

drawAxes(p0, vx, vy, vz, name, AxesOptions) ==
    LET opacity == OrDefault(AxesOptions.edgeOpacity, 10)
        size == OrDefault(AxesOptions.lineSize, 1)
        xAxis == drawAxis(p0, vx, AxesOptions.xColor, opacity, size, name)
        yAxis == drawAxis(p0, vy, AxesOptions.yColor, opacity, size, name)
        zAxis == drawAxis(p0, vz, AxesOptions.zColor, opacity, size, name)
        centerPoint ==
            [x |-> <<p0.x>>,
             y |-> <<p0.y>>,
             color |-> AxesOptions.intersectionPointColor,
             opacity |-> 10,
             size |-> OrDefault(AxesOptions.intersectionPointSize, 3),
             type |-> "points",
             id |-> "point-" \o name]
    IN  <<xAxis, yAxis, zAxis, centerPoint>>

(* --------------------------- sub-renderers ----------------------------- *)

\* the faces tagged from 1 instead of 0
drawBox_oneBased ==
    IF sceneOptions.sceneEdges = <<>> THEN Ok(<<>>)
    ELSE
        LET p == cube.vertexPoints2d
            color == sceneOptions.sceneEdges[1].color
            opacity == sceneOptions.sceneEdges[1].opacity
            plane(index) ==
                LET pointIndices == POINT_FACE_SET[index + 1]
                IN  [x |-> [k \in 1..4 |-> At(p, pointIndices[k]).x],
                     y |-> [k \in 1..4 |-> At(p, pointIndices[k]).y],
                     borderColor |-> color,
                     borderOpacity |-> OrDefault(opacity, 10),
                     borderSize |-> 1,
                     fillColor |-> color,
                     fillOpacity |-> 0,
                     type |-> "polygon",
                     id |-> "plane-" \o ToString(index + 1)]
        IN  IF \A f \in DOMAIN POINT_FACE_SET : Readable(p, Range(POINT_FACE_SET[f]))
            THEN Ok([f \in DOMAIN POINT_FACE_SET |-> plane(f - 1)])
            ELSE Fault

drawBox ==
    IF sceneOptions.sceneEdges = <<>> THEN Ok(<<>>)
    ELSE
        LET p == cube.vertexPoints2d
            color == sceneOptions.sceneEdges[1].color
            opacity == sceneOptions.sceneEdges[1].opacity
            plane(index) ==
                LET pointIndices == POINT_FACE_SET[index + 1]
                IN  [x |-> [k \in 1..4 |-> At(p, pointIndices[k]).x],
                     y |-> [k \in 1..4 |-> At(p, pointIndices[k]).y],
                     borderColor |-> color,
                     borderOpacity |-> OrDefault(opacity, 10),
                     borderSize |-> 1,
                     fillColor |-> color,
                     fillOpacity |-> 0,
                     type |-> "polygon",
                     id |-> "plane-" \o ToString(index)]
        IN  IF \A f \in DOMAIN POINT_FACE_SET : Readable(p, Range(POINT_FACE_SET[f]))
            THEN Ok([f \in DOMAIN POINT_FACE_SET |-> plane(f - 1)])
            ELSE Fault

drawEdges ==
    IF sceneOptions.edgeAxes = <<>> THEN Ok(<<>>)
    ELSE
        LET p == cube.vertexPoints2d
        IN  IF Readable(p, {6, 7, 4, 2})
            THEN Ok(drawAxes(At(p, 6), At(p, 7), At(p, 4), At(p, 2), "edge",
                             sceneOptions.edgeAxes[1]))
            ELSE Fault

drawWorldAxes ==
    IF sceneOptions.worldAxes = <<>> THEN Ok(<<>>)
    ELSE
        LET v == cube.worldAxes2d
            p_ == cube.worldOrigin2d
        IN  IF Readable(v, {0, 1, 2})
            THEN Ok(drawAxes(p_, At(v, 0), At(v, 1), At(v, 2), "worldAxes",
                             sceneOptions.worldAxes[1]))
            ELSE Fault

drawCubeAxes ==
    IF sceneOptions.cubeAxes = <<>> THEN Ok(<<>>)
    ELSE
        LET v == cube.axes2d
            p_ == cube.center2d
        IN  IF Readable(v, {0, 1, 2})
            THEN Ok(drawAxes(p_, At(v, 0), At(v, 1), At(v, 2), "axes",
                             sceneOptions.cubeAxes[1]))
            ELSE Fault

\* vertex order of the polygon of drawXYplane
XYplaneOrder == <<4, 5, 7, 6>>

drawXYplane ==
    LET p == cube.vertexPoints2d
        polygon ==
            [x |-> [k \in 1..4 |-> At(p, XYplaneOrder[k]).x],
             y |-> [k \in 1..4 |-> At(p, XYplaneOrder[k]).y],
             fillColor |-> "#0e2845",
             fillOpacity |-> 5,
             borderColor |-> "#0e2845",
             borderOpacity |-> 10,
             borderSize |-> 1,
             type |-> "polygon",
             id |-> "xy-plane"]
    IN  IF Readable(p, Range(XYplaneOrder)) THEN Ok(<<polygon>>) ELSE Fault

\* start and end indices of the segments of drawCrossSectionLines: the first
\* four index crossPoints2d, the last four vertexPoints2d
CrossFrom == <<0, 1, 1, 3>>

CrossTo == <<3, 2, 4, 5>>

LoopFrom == <<6, 4, 5, 7>>

LoopTo == <<4, 5, 7, 6>>

\* the lines gated by the crossLines option, as the sibling features are
drawCrossSectionLines_gated ==
    LET p == cube.crossPoints2d
        t == cube.vertexPoints2d
        lines ==
            [x0 |-> [k \in 1..4 |-> At(p, CrossFrom[k]).x] \o [k \in 1..4 |-> At(t, LoopFrom[k]).x],
             y0 |-> [k \in 1..4 |-> At(p, CrossFrom[k]).y] \o [k \in 1..4 |-> At(t, LoopFrom[k]).y],
             x1 |-> [k \in 1..4 |-> At(p, CrossTo[k]).x] \o [k \in 1..4 |-> At(t, LoopTo[k]).x],
             y1 |-> [k \in 1..4 |-> At(p, CrossTo[k]).y] \o [k \in 1..4 |-> At(t, LoopTo[k]).y],
             color |-> "#079992",
             opacity |-> 5,
             size |-> 1,
             type |-> "lines",
             id |-> "cross-section-lines"]
    IN  IF sceneOptions.crossLines = <<>> THEN Ok(<<>>)
        ELSE IF /\ Readable(p, Range(CrossFrom) \cup Range(CrossTo))
                /\ Readable(t, Range(LoopFrom) \cup Range(LoopTo))
        THEN Ok(<<lines>>)
        ELSE Fault

drawCrossSectionLines ==
    LET p == cube.crossPoints2d
        t == cube.vertexPoints2d
        lines ==
            [x0 |-> [k \in 1..4 |-> At(p, CrossFrom[k]).x] \o [k \in 1..4 |-> At(t, LoopFrom[k]).x],
             y0 |-> [k \in 1..4 |-> At(p, CrossFrom[k]).y] \o [k \in 1..4 |-> At(t, LoopFrom[k]).y],
             x1 |-> [k \in 1..4 |-> At(p, CrossTo[k]).x] \o [k \in 1..4 |-> At(t, LoopTo[k]).x],
             y1 |-> [k \in 1..4 |-> At(p, CrossTo[k]).y] \o [k \in 1..4 |-> At(t, LoopTo[k]).y],
             color |-> "#079992",
             opacity |-> 5,
             size |-> 1,
             type |-> "lines",
             id |-> "cross-section-lines"]
    IN  IF /\ Readable(p, Range(CrossFrom) \cup Range(CrossTo))
           /\ Readable(t, Range(LoopFrom) \cup Range(LoopTo))
        THEN Ok(<<lines>>)
        ELSE Fault

(* ------------------------- top-level composition ----------------------- *)

\* a throw in one operand is swallowed and the other operand is kept
Spread_swallow(a, b) ==
    IF a.ok /\ b.ok THEN Ok(a.value \o b.value)
    ELSE IF a.ok THEN a
    ELSE IF b.ok THEN b
    ELSE Ok(<<>>)

\* [...a, ...b]: a throw in either operand is a throw of the whole
Spread(a, b) == IF a.ok /\ b.ok THEN Ok(a.value \o b.value) ELSE Fault

\* the XY plane drawn once
render_once ==
    Spread(drawBox,
    Spread(drawXYplane,
    Spread(drawEdges,
    Spread(drawCrossSectionLines,
    Spread(drawWorldAxes, drawCubeAxes)))))

render ==
    Spread(drawBox,
    Spread(drawXYplane,
    Spread(drawEdges,
    Spread(drawXYplane,
    Spread(drawCrossSectionLines,
    Spread(drawWorldAxes, drawCubeAxes))))))

(* ------------------------------ inputs --------------------------------- *)

\* The geometry collaborator's snapshot. Every coordinate of every point is
\* different, so that a point read from the wrong place shows in the output.
VertexPoint(i) == [x |-> 10 + i, y |-> 20 + i]

CrossPoint(i) == [x |-> 30 + i, y |-> 40 + i]

VertexCounts == {n \in 0..8 : n + MaxMissing >= 8}

CrossCounts == {n \in 0..6 : n + MaxMissing >= 6}

Cubes ==
    {[vertexPoints2d |-> [i \in 1..nv |-> VertexPoint(i - 1)],
      crossPoints2d |-> [i \in 1..nc |-> CrossPoint(i - 1)],
      axes2d |-> <<[x |-> 50, y |-> 60], [x |-> 51, y |-> 61], [x |-> 52, y |-> 62]>>,
      worldAxes2d |-> <<[x |-> 70, y |-> 80], [x |-> 71, y |-> 81], [x |-> 72, y |-> 82]>>,
      center2d |-> [x |-> 90, y |-> 91],
      worldOrigin2d |-> [x |-> 92, y |-> 93]] : nv \in VertexCounts, nc \in CrossCounts}

\* an option that is a plain switch: absent or present
Switch == {<<>>, <<TRUE>>}

SceneEdgesChoices ==
    {<<>>} \cup {<<[color |-> "#fff", opacity |-> o]>> : o \in {<<>>, <<0>>, <<8>>}}

\* the numeric style fields of an axes option: each field is omitted in one
\* choice, 0 in another and a positive number in the third
AxesStyles ==
    {[lineSize |-> <<>>, edgeOpacity |-> <<0>>, intersectionPointSize |-> <<4>>],
     [lineSize |-> <<0>>, edgeOpacity |-> <<5>>, intersectionPointSize |-> <<>>],
     [lineSize |-> <<2>>, edgeOpacity |-> <<>>, intersectionPointSize |-> <<0>>]}

\* the axes options of one feature; the colours carry the feature's name, so
\* that an option read from the wrong feature shows in the output
AxesChoices(feature) ==
    {<<>>} \cup
    {<<[xColor |-> feature \o "-red",
        yColor |-> feature \o "-green",
        zColor |-> feature \o "-blue",
        intersectionPointColor |-> feature \o "-white",
        lineSize |-> s.lineSize,
        edgeOpacity |-> s.edgeOpacity,
        intersectionPointSize |-> s.intersectionPointSize]>> : s \in AxesStyles}

Options ==
    [sceneEdges : SceneEdgesChoices,
     xyPlane : Switch,
     crossLines : Switch,
     edgeAxes : AxesChoices("edge"),
     worldAxes : AxesChoices("world"),
     cubeAxes : AxesChoices("cube")]

(* --------------------------- state machine ----------------------------- *)

\* new SceneCubeRenderer(cube, sceneOptions)
Init ==
    /\ cube \in Cubes
    /\ sceneOptions \in Options
    /\ lastCall = "constructor"
    /\ returned = Ok(<<>>)
    /\ renderCalls = 0
    /\ firstRender = <<>>

\* a call of a method other than render(): what it returns is recorded
Call(name, result) ==
    /\ lastCall' = name
    /\ returned' = result
    /\ UNCHANGED <<cube, sceneOptions, renderCalls, firstRender>>

\* render() that reverses the snapshot's vertex list in place
Render_mutating ==
    /\ renderCalls < MaxCalls
    /\ lastCall' = "render"
    /\ returned' = render
    /\ renderCalls' = renderCalls + 1
    /\ firstRender' = IF renderCalls = 0 THEN <<render>> ELSE firstRender
    /\ cube' = [cube EXCEPT !.vertexPoints2d =
                    [i \in DOMAIN @ |-> @[Len(@) + 1 - i]]]
    /\ UNCHANGED sceneOptions

Render ==
    /\ renderCalls < MaxCalls
    /\ lastCall' = "render"
    /\ returned' = render
    /\ renderCalls' = renderCalls + 1
    /\ firstRender' = IF renderCalls = 0 THEN <<render>> ELSE firstRender
    /\ UNCHANGED <<cube, sceneOptions>>

DrawBox == Call("drawBox", drawBox)

DrawXYplane == Call("drawXYplane", drawXYplane)

DrawEdges == Call("drawEdges", drawEdges)

DrawWorldAxes == Call("drawWorldAxes", drawWorldAxes)

DrawCubeAxes == Call("drawCubeAxes", drawCubeAxes)

DrawCrossSectionLines == Call("drawCrossSectionLines", drawCrossSectionLines)

Next ==
    \/ Render
    \/ DrawBox
    \/ DrawXYplane
    \/ DrawEdges
    \/ DrawWorldAxes
    \/ DrawCubeAxes
    \/ DrawCrossSectionLines

Spec == Init /\ [][Next]_vars

TypeOK ==
    /\ returned.ok \in BOOLEAN
    /\ renderCalls \in 0..MaxCalls

(* ------------------------------ claims --------------------------------- *)

\* the snapshot honours the collaborator's interface: 8 vertices, 6 cross points
WellFormed ==
    /\ Len(cube.vertexPoints2d) = 8
    /\ Len(cube.crossPoints2d) = 6

Present(o) == IF o = <<>> THEN 0 ELSE 1

Vtx(i) == cube.vertexPoints2d[i + 1]

Crs(i) == cube.crossPoints2d[i + 1]

PlaneTags == <<"plane-0", "plane-1", "plane-2", "plane-3", "plane-4", "plane-5">>

\* the XY-plane polygon, written out
XYplaneAsClaimed ==
    [x |-> <<Vtx(4).x, Vtx(5).x, Vtx(7).x, Vtx(6).x>>,
     y |-> <<Vtx(4).y, Vtx(5).y, Vtx(7).y, Vtx(6).y>>,
     fillColor |-> "#0e2845",
     fillOpacity |-> 5,
     borderColor |-> "#0e2845",
     borderOpacity |-> 10,
     borderSize |-> 1,
     type |-> "polygon",
     id |-> "xy-plane"]

\* the cross-section line bundle, written out
CrossLinesAsClaimed ==
    [x0 |-> <<Crs(0).x, Crs(1).x, Crs(1).x, Crs(3).x, Vtx(6).x, Vtx(4).x, Vtx(5).x, Vtx(7).x>>,
     y0 |-> <<Crs(0).y, Crs(1).y, Crs(1).y, Crs(3).y, Vtx(6).y, Vtx(4).y, Vtx(5).y, Vtx(7).y>>,
     x1 |-> <<Crs(3).x, Crs(2).x, Crs(4).x, Crs(5).x, Vtx(4).x, Vtx(5).x, Vtx(7).x, Vtx(6).x>>,
     y1 |-> <<Crs(3).y, Crs(2).y, Crs(4).y, Crs(5).y, Vtx(4).y, Vtx(5).y, Vtx(7).y, Vtx(6).y>>,
     color |-> "#079992",
     opacity |-> 5,
     size |-> 1,
     type |-> "lines",
     id |-> "cross-section-lines"]

\* C1: on a well-formed snapshot render() returns, for every combination of
\* the four options, drawBox(), drawXYplane(), drawEdges(), drawXYplane(),
\* drawCrossSectionLines(), drawWorldAxes(), drawCubeAxes() one after the
\* other, nothing dropped or moved; with the four options absent that is the
\* XY-plane polygon twice, value-identical, and the cross-section bundle.
C1_RenderIsConcatenation ==
    (lastCall = "render" /\ WellFormed) =>
        LET r == returned.value
            nb == 6 * Present(sceneOptions.sceneEdges)
            ne == 4 * Present(sceneOptions.edgeAxes)
            nw == 4 * Present(sceneOptions.worldAxes)
            nc == 4 * Present(sceneOptions.cubeAxes)
        IN  /\ returned.ok
            /\ Len(r) = nb + 1 + ne + 1 + 1 + nw + nc
            /\ SubSeq(r, 1, nb) = drawBox.value
            /\ SubSeq(r, nb + 1, nb + 1) = drawXYplane.value
            /\ SubSeq(r, nb + 2, nb + 1 + ne) = drawEdges.value
            /\ SubSeq(r, nb + ne + 2, nb + ne + 2) = drawXYplane.value
            /\ SubSeq(r, nb + ne + 3, nb + ne + 3) = drawCrossSectionLines.value
            /\ SubSeq(r, nb + ne + 4, nb + ne + 3 + nw) = drawWorldAxes.value
            /\ SubSeq(r, nb + ne + nw + 4, nb + ne + nw + nc + 3) = drawCubeAxes.value
            /\ (nb + ne + nw + nc = 0 =>
                    /\ r = <<XYplaneAsClaimed, XYplaneAsClaimed, CrossLinesAsClaimed>>
                    /\ r[1] = r[2])

C1_Witness ==
    /\ lastCall = "render"
    /\ WellFormed
    /\ sceneOptions.sceneEdges # <<>>
    /\ sceneOptions.edgeAxes # <<>>
    /\ sceneOptions.worldAxes = <<>>
    /\ sceneOptions.cubeAxes # <<>>
    /\ Len(returned.value) = 17

\* C2: a call never changes the cube snapshot or the options, and every
\* render() after the first returns what the first returned, tags included.
C2_RenderIdempotent ==
    [][/\ cube' = cube
       /\ sceneOptions' = sceneOptions
       /\ (lastCall' = "render" /\ renderCalls >= 1 =>
              /\ returned' = firstRender[1]
              /\ [i \in DOMAIN returned'.value |-> returned'.value[i].id]
                    = [i \in DOMAIN firstRender[1].value |-> firstRender[1].value[i].id])]_vars

C2_Witness ==
    /\ lastCall = "render"
    /\ renderCalls >= 2
    /\ returned.ok
    /\ Len(returned.value) > 3
    /\ returned = firstRender[1]

\* C3: drawBox() returns the empty sequence when sceneEdges is absent; when
\* present (8 vertices delivered) it returns 6 polygons in face-table order,
\* polygon i over the 4 vertices of face-table entry i in that entry's order,
\* tagged plane-i, borderColor the configured colour, borderSize 1,
\* fillOpacity 0.
C3_DrawBox ==
    lastCall = "drawBox" =>
        /\ sceneOptions.sceneEdges = <<>> => returned = Ok(<<>>)
        /\ (sceneOptions.sceneEdges # <<>> /\ Len(cube.vertexPoints2d) = 8) =>
              /\ returned.ok
              /\ Len(returned.value) = 6
              /\ \A i \in 0..5 :
                    LET plane == returned.value[i + 1]
                        f == POINT_FACE_SET[i + 1]
                    IN  /\ plane.type = "polygon"
                        /\ plane.x = <<Vtx(f[1]).x, Vtx(f[2]).x, Vtx(f[3]).x, Vtx(f[4]).x>>
                        /\ plane.y = <<Vtx(f[1]).y, Vtx(f[2]).y, Vtx(f[3]).y, Vtx(f[4]).y>>
                        /\ plane.id = PlaneTags[i + 1]
                        /\ plane.borderColor = sceneOptions.sceneEdges[1].color
                        /\ plane.borderSize = 1
                        /\ plane.fillOpacity = 0

C3_Witness ==
    /\ lastCall = "drawBox"
    /\ sceneOptions.sceneEdges # <<>>
    /\ returned.ok
    /\ Len(returned.value) = 6
    /\ returned.value[6].id = "plane-5"

\* what C4 says an axes renderer returns for (origin; x, y, z direction; name)
AxesAsClaimed(r, o, dx, dy, dz, name, opt) ==
    LET d == <<dx, dy, dz>>
        c == <<opt.xColor, opt.yColor, opt.zColor>>
    IN  /\ Len(r) = 4
        /\ \A k \in 1..3 :
              /\ r[k].type = "lines"
              /\ r[k].x0 = <<o.x>>
              /\ r[k].y0 = <<o.y>>
              /\ r[k].x1 = <<d[k].x>>
              /\ r[k].y1 = <<d[k].y>>
              /\ r[k].color = c[k]
              /\ r[k].id = "x-" \o name
        /\ r[4].type = "points"
        /\ r[4].x = <<o.x>>
        /\ r[4].y = <<o.y>>
        /\ r[4].id = "point-" \o name
        /\ r[4].opacity = 10

\* C4: drawEdges(), drawWorldAxes() and drawCubeAxes() each return the empty
\* sequence when their option is absent and otherwise three one-segment line
\* bundles from the origin to the x, y, z direction point, coloured xColor,
\* yColor, zColor and tagged x-<name>, then the origin marker tagged
\* point-<name> with opacity 1.0; with (vertex 6; vertices 7, 4, 2; edge),
\* (worldOrigin2d; worldAxes2d; worldAxes) and (center2d; axes2d; axes).
C4_AxesRenderers ==
    /\ lastCall = "drawEdges" =>
          /\ sceneOptions.edgeAxes = <<>> => returned = Ok(<<>>)
          /\ (sceneOptions.edgeAxes # <<>> /\ Len(cube.vertexPoints2d) = 8) =>
                /\ returned.ok
                /\ AxesAsClaimed(returned.value, Vtx(6), Vtx(7), Vtx(4), Vtx(2),
                                 "edge", sceneOptions.edgeAxes[1])
    /\ lastCall = "drawWorldAxes" =>
          /\ sceneOptions.worldAxes = <<>> => returned = Ok(<<>>)
          /\ sceneOptions.worldAxes # <<>> =>
                /\ returned.ok
                /\ AxesAsClaimed(returned.value, cube.worldOrigin2d,
                                 cube.worldAxes2d[1], cube.worldAxes2d[2],
                                 cube.worldAxes2d[3], "worldAxes",
                                 sceneOptions.worldAxes[1])
    /\ lastCall = "drawCubeAxes" =>
          /\ sceneOptions.cubeAxes = <<>> => returned = Ok(<<>>)
          /\ sceneOptions.cubeAxes # <<>> =>
                /\ returned.ok
                /\ AxesAsClaimed(returned.value, cube.center2d, cube.axes2d[1],
                                 cube.axes2d[2], cube.axes2d[3], "axes",
                                 sceneOptions.cubeAxes[1])

C4_Witness ==
    /\ lastCall = "drawEdges"
    /\ sceneOptions.edgeAxes # <<>>
    /\ sceneOptions.worldAxes = <<>>
    /\ returned.ok
    /\ Len(returned.value) = 4
    /\ returned.value[3].color = "edge-blue"

\* C5: whatever the options (crossLines present or absent included),
\* drawCrossSectionLines() on a well-formed snapshot returns one line bundle
\* of 8 segments: cross point 0 to 3, 1 to 2, 1 to 4, 3 to 5, then vertex
\* 6 to 4, 4 to 5, 5 to 7, 7 to 6; colour #079992, opacity 0.5, size 1, tag
\* cross-section-lines.
C5_CrossSectionLines ==
    (lastCall = "drawCrossSectionLines" /\ WellFormed) =>
        /\ returned.ok
        /\ Len(returned.value) = 1
        /\ \A f \in {"x0", "y0", "x1", "y1"} : Len(returned.value[1][f]) = 8
        /\ returned.value[1] = CrossLinesAsClaimed

C5_Witness ==
    /\ lastCall = "drawCrossSectionLines"
    /\ WellFormed
    /\ sceneOptions.crossLines = <<>>
    /\ returned.ok
    /\ Len(returned.value) = 1

\* the number of face-table entries that hold index v
FacesOf(v) == Cardinality({f \in DOMAIN POINT_FACE_SET : v \in Range(POINT_FACE_SET[f])})

\* C6: the face table drawBox() draws from has 6 entries of 4 pairwise
\* distinct indices each, every index lies in 0..7, and every index of 0..7
\* is in exactly 3 entries.
C6_FaceTable ==
    lastCall = "drawBox" =>
        /\ Len(POINT_FACE_SET) = 6
        /\ \A f \in DOMAIN POINT_FACE_SET :
              /\ Len(POINT_FACE_SET[f]) = 4
              /\ Cardinality(Range(POINT_FACE_SET[f])) = 4
              /\ Range(POINT_FACE_SET[f]) \subseteq 0..7
        /\ \A v \in 0..7 : FacesOf(v) = 3

C6_Witness ==
    /\ lastCall = "drawBox"
    /\ returned.ok
    /\ Len(returned.value) = Len(POINT_FACE_SET)
    /\ returned.value[1].x = <<Vtx(0).x, Vtx(1).x, Vtx(3).x, Vtx(2).x>>

\* C7: no two primitives of one render() result carry the same tag.
C7_TagsUnique ==
    (lastCall = "render" /\ returned.ok) =>
        \A i, j \in DOMAIN returned.value :
            i # j => returned.value[i].id # returned.value[j].id

\* C8: render() on a snapshot with fewer than 8 vertex points or fewer than 6
\* cross points throws, for every options object, and returns no list.
C8_MalformedSnapshotFaults ==
    (lastCall = "render" /\ ~WellFormed) => returned = Fault

C8_Witness ==
    /\ lastCall = "render"
    /\ Len(cube.vertexPoints2d) = 8
    /\ Len(cube.crossPoints2d) < 6
    /\ sceneOptions.sceneEdges # <<>>
    /\ ~returned.ok

\* the value of an optional number, d when it is omitted
Supplied(a, d) == IF a = <<>> THEN d ELSE a[1]

\* the axes option read by the last call, <<>> when the call has none
AxesOptionOf(call) ==
    CASE call = "drawEdges" -> sceneOptions.edgeAxes
      [] call = "drawWorldAxes" -> sceneOptions.worldAxes
      [] call = "drawCubeAxes" -> sceneOptions.cubeAxes
      [] OTHER -> <<>>

\* C9: a numeric default is used only when the field is omitted: the faces
\* carry borderOpacity sceneEdges.opacity, the axis bundles opacity
\* edgeOpacity and size lineSize, the origin marker size
\* intersectionPointSize, for every supplied value, 0 included; omitted
\* fields give 1, 1, 1 and 3.
C9_DefaultsOnlyWhenOmitted ==
    /\ (lastCall = "drawBox" /\ returned.ok) =>
          \A i \in DOMAIN returned.value :
              returned.value[i].borderOpacity
                  = Supplied(sceneOptions.sceneEdges[1].opacity, 10)
    /\ (AxesOptionOf(lastCall) # <<>> /\ returned.ok) =>
          LET opt == AxesOptionOf(lastCall)[1]
          IN  /\ \A k \in 1..3 :
                    /\ returned.value[k].opacity = Supplied(opt.edgeOpacity, 10)
                    /\ returned.value[k].size = Supplied(opt.lineSize, 1)
              /\ returned.value[4].size = Supplied(opt.intersectionPointSize, 3)

\* bit b of vertex index i: bit 0 left/right, bit 1 top/bottom, bit 2 front/back
Bit(i, b) == (i \div (2 ^ b)) % 2

\* the 12 edges of the cube: the pairs of vertices that differ in one bit
CubeEdges ==
    {e \in SUBSET (0..7) :
        \E i, j \in 0..7 :
            /\ e = {i, j}
            /\ Cardinality({b \in 0..2 : Bit(i, b) # Bit(j, b)}) = 1}

\* the sides of the closed outline through the vertices of s, in order
Sides(s) == [k \in DOMAIN s |-> {s[k], s[(k % Len(s)) + 1]}]

\* C10: every closed outline follows cube edges: each side of each face-table
\* entry joins two vertices that differ in exactly one bit, each of the 12
\* cube edges is a side of exactly 2 faces, and the XY-plane polygon
\* (4, 5, 7, 6) and the vertex loop of the cross-section lines run over the
\* same four cube edges, each once.
C10_OutlinesFollowCubeEdges ==
    lastCall \in {"render", "drawBox", "drawXYplane", "drawCrossSectionLines"} =>
        /\ Cardinality(CubeEdges) = 12
        /\ \A f \in DOMAIN POINT_FACE_SET :
              Range(Sides(POINT_FACE_SET[f])) \subseteq CubeEdges
        /\ \A e \in CubeEdges :
              Cardinality({f \in DOMAIN POINT_FACE_SET :
                              e \in Range(Sides(POINT_FACE_SET[f]))}) = 2
        /\ XYplaneOrder = <<4, 5, 7, 6>>
        /\ Range(Sides(XYplaneOrder)) \subseteq CubeEdges
        /\ Cardinality(Range(Sides(XYplaneOrder))) = 4
        /\ <<LoopFrom, LoopTo>> = << <<6, 4, 5, 7>>, <<4, 5, 7, 6>> >>
        /\ LET loop == [k \in DOMAIN LoopFrom |-> {LoopFrom[k], LoopTo[k]}]
           IN  /\ Range(loop) = Range(Sides(XYplaneOrder))
               /\ Cardinality(Range(loop)) = Len(loop)

C10_Witness ==
    /\ lastCall = "render"
    /\ returned.ok
    /\ sceneOptions.sceneEdges # <<>>
    /\ returned.value[7].x = <<Vtx(4).x, Vtx(5).x, Vtx(7).x, Vtx(6).x>>
    /\ returned.value[Len(returned.value)].id = "cross-section-lines"

====
